---- MODULE Spec2Model ----
(***************************************************************************)
(* Model of the ingestion persistence layer (save_news_to_db,              *)
(* refetch_news_item) and of the analysis cache (analyze_article) of the   *)
(* python backend, over the SQLite tables news and article_analysis.       *)
(*                                                                         *)
(* Text is a sequence of one-character strings, so that str.lower() and    *)
(* the substring test `in` are computed, not assumed.  SQL NULL / Python   *)
(* None in a text column is the reserved text Null.                        *)
(***************************************************************************)
EXTENDS Integers, Sequences, FiniteSets, TLC

VARIABLES
    news,          \* committed rows of table news
    news_seq,      \* AUTOINCREMENT counter of news
    analysis,      \* committed rows of table article_analysis
    analysis_seq,  \* AUTOINCREMENT counter of article_analysis
    db_writer,     \* the connection holding SQLite's write lock: "none", a
                   \* saver, or "leaked" (a connection left open in a transaction)
    savers,        \* one save_news_to_db call per fetch thread
    saves,         \* number of save_news_to_db calls started
    reqs,          \* one analyze_article coroutine per request slot
    ai_calls,      \* number of generate_remote calls made
    served,        \* history: per key, what the call that committed last returned
    refetch,       \* the refetch_news_item coroutine
    refetches,     \* number of refetch_news_item calls started
    fetch,         \* the fetch_all_news run and its per-source tasks
    clean          \* a text handed to clean_extracted_text, and its result

vars == <<news, news_seq, analysis, analysis_seq, db_writer, savers, saves,
          reqs, ai_calls, served, refetch, refetches, fetch, clean>>

dbVars == <<news, news_seq, analysis, analysis_seq>>
saveVars == <<savers, saves>>
reqVars == <<reqs, ai_calls, served>>
refetchVars == <<refetch, refetches>>
pipeVars == <<fetch, clean>>

-----------------------------------------------------------------------------
(* Bounds of the model *)

MaxBatch == 2
MaxSaves == 2
MaxCalls == 2
MaxRefetch == 1
MaxSide == 2
MaxBlank == 4
MaxEntries == 2
MaxBlocks == 2

-----------------------------------------------------------------------------
(* Python strings *)

Null == <<"NULL">>

\* `s is not None`: a test that lets the empty text through
NotNone(s) == s # Null

Truthy(s) == s # Null /\ s # <<>>

PyOr(a, b) == IF Truthy(a) THEN a ELSE b

LowerChar(c) ==
    CASE c = "A" -> "a"
      [] c = "B" -> "b"
      [] c = "C" -> "c"
      [] c = "D" -> "d"
      [] OTHER -> c

Lower(s) == [i \in 1..Len(s) |-> LowerChar(s[i])]

\* Python's `t in s` on two strings
IsSubstr(t, s) ==
    \E i \in 0..(Len(s) - Len(t)) : SubSeq(s, i + 1, i + Len(t)) = t

TextOld == <<"A", "b", "c">>
TextNew == <<"c", "d">>
SumFeed == <<"b", "d">>
SumA == <<"a", "b">>
SumB == <<"d">>


-----------------------------------------------------------------------------
(* JSON values, as json.loads returns them.  An object is described by the *)
(* three keys the analyzer looks at; every value has the same shape so     *)
(* that values of different kinds compare.                                 *)

JObj(hasScope, scopeVal, sumKind, summary, vocKind, vocabulary) ==
    [kind |-> "obj", hasScope |-> hasScope, scope |-> scopeVal,
     sumKind |-> sumKind, summary |-> summary,
     vocKind |-> vocKind, vocabulary |-> vocabulary]

\* a JSON value that is not an object: "list" (e.g. [1, 2]) or "num" (e.g. 42)
JOther(kind) ==
    [kind |-> kind, hasScope |-> FALSE, scope |-> "",
     sumKind |-> "absent", summary |-> <<>>,
     vocKind |-> "absent", vocabulary |-> <<>>]

JNone == JOther("none")

\* entries of a "vocabulary" list
TermItem(term) == [kind |-> "dict", termKind |-> "str", term |-> term]
ItemNoTerm == [kind |-> "dict", termKind |-> "absent", term |-> <<>>]
ItemNumTerm == [kind |-> "dict", termKind |-> "num", term |-> <<>>]
ItemNotDict == [kind |-> "other", termKind |-> "absent", term |-> <<>>]

\* json.dumps / json.loads: the stored text of a value.  valid is FALSE for
\* a text json.loads rejects (JSONDecodeError).
Dumps(data) == [valid |-> TRUE, json |-> data]

Loads(text) == [ok |-> text.valid, data |-> text.json]

\* Python's `key in data` for the string keys "summary" / "vocabulary":
\* "yes", "no", or "raise" (TypeError: argument of type 'int' is not iterable)
KeyIn(key, data) ==
    CASE data.kind = "obj" ->
           IF key = "summary"
           THEN (IF data.sumKind # "absent" THEN "yes" ELSE "no")
           ELSE (IF data.vocKind # "absent" THEN "yes" ELSE "no")
      [] data.kind = "list" -> "no"
      [] OTHER -> "raise"

\* data["scope"] = scope: TypeError unless data is a dict
CanSetItem(data) == data.kind = "obj"

SetScope(data, scope) == [data EXCEPT !.hasScope = TRUE, !.scope = scope]

-----------------------------------------------------------------------------
(* Tables *)

NewsSources == {[name |-> "src1", category |-> "ai"]}

\* SELECT category FROM news_sources WHERE name = ? LIMIT 1
SourceCategory(name) ==
    IF \E s \in NewsSources : s.name = name
    THEN (CHOOSE s \in NewsSources : s.name = name).category
    ELSE "None"

NewsRow(id, item, category) ==
    [id |-> id, title |-> item.title, url |-> item.url,
     summary |-> item.summary, content_raw |-> item.content_raw,
     source |-> item.source, category |-> category, date |-> item.date,
     starred |-> 0, updated_at |-> "created", deleted |-> 0, is_read |-> 0,
     hidden |-> 0]

\* NOT NULL columns of news
NotNullOk(item) ==
    item.title # "None" /\ item.url # "None" /\ item.source # "None"
        /\ item.date # "None"

\* INSERT OR REPLACE INTO news: what a writer that overwrites on conflict does
InsertOrReplaceNews(table, id, item, category) ==
    IF ~NotNullOk(item) THEN table
    ELSE {r \in table : r.url # item.url} \cup {NewsRow(id, item, category)}

\* plain INSERT INTO a news table that has no UNIQUE(url)
InsertNoUnique(table, id, item, category) ==
    IF ~NotNullOk(item) THEN table
    ELSE table \cup {NewsRow(id, item, category)}

\* INSERT OR IGNORE INTO news, url TEXT UNIQUE NOT NULL
InsertOrIgnoreNews(table, id, item, category) ==
    IF ~NotNullOk(item) \/ (\E r \in table : r.url = item.url)
    THEN table
    ELSE table \cup {NewsRow(id, item, category)}

\* an UPDATE that only fills a summary that is missing
UpdateSummaryIfNull(table, news_id, summary) ==
    {IF r.id = news_id /\ ~Truthy(r.summary) THEN [r EXCEPT !.summary = summary]
     ELSE r : r \in table}

\* an UPDATE whose write is not committed with the upsert before it
UpdateSummaryLost(table, news_id, summary) == table

\* UPDATE news SET summary = ? WHERE id = ?
UpdateSummary(table, news_id, summary) ==
    {IF r.id = news_id THEN [r EXCEPT !.summary = summary] ELSE r : r \in table}

\* an UPDATE that also resets the summary column
UpdateContentAndSummary(table, news_id, content) ==
    {IF r.id = news_id
     THEN [r EXCEPT !.content_raw = content, !.updated_at = "refetched",
                    !.summary = Null]
     ELSE r : r \in table}

\* UPDATE news SET content_raw = ?, updated_at = CURRENT_TIMESTAMP WHERE id = ?
\* (updated_at names the statement that wrote the timestamp last)
UpdateContent(table, news_id, content) ==
    {IF r.id = news_id
     THEN [r EXCEPT !.content_raw = content, !.updated_at = "refetched"]
     ELSE r : r \in table}

\* UPDATE news SET starred = ?, updated_at = CURRENT_TIMESTAMP WHERE id = ?
UpdateStarred(table, news_id, v) ==
    {IF r.id = news_id
     THEN [r EXCEPT !.starred = v, !.updated_at = "starred"]
     ELSE r : r \in table}

SameKey(r, news_id, scope, mode) ==
    r.news_id = news_id /\ r.scope = scope /\ r.mode = mode

AnalysisRow(id, news_id, scope, mode, content, model) ==
    [id |-> id, news_id |-> news_id, scope |-> scope, mode |-> mode,
     content |-> content, model_used |-> model]

\* plain INSERT INTO an article_analysis table that has no UNIQUE key
InsertAnalysis(table, id, news_id, scope, mode, content, model) ==
    table \cup {AnalysisRow(id, news_id, scope, mode, content, model)}

\* INSERT INTO article_analysis ... ON CONFLICT(news_id, scope, mode)
\* DO UPDATE SET content = excluded.content, model_used = excluded.model_used
UpsertAnalysis(table, id, news_id, scope, mode, content, model) ==
    IF \E r \in table : SameKey(r, news_id, scope, mode)
    THEN {IF SameKey(r, news_id, scope, mode)
          THEN [r EXCEPT !.content = content, !.model_used = model]
          ELSE r : r \in table}
    ELSE table \cup {AnalysisRow(id, news_id, scope, mode, content, model)}

\* content_raw or summary or ""
ArticleText(row) == PyOr(row.content_raw, PyOr(row.summary, <<>>))

-----------------------------------------------------------------------------
(* save_news_to_db: one call per fetch thread, each on its own connection. *)
(* SQLite admits one writer: the first INSERT of a call takes the write    *)
(* lock, which conn.commit() releases; an INSERT that finds the lock held  *)
(* raises "database is locked", which the per-item handler swallows.       *)

Savers == {"t1", "t2"}

Candidate(title, url, summary, content_raw, source, category, date) ==
    [title |-> title, url |-> url, summary |-> summary,
     content_raw |-> content_raw, source |-> source, category |-> category,
     date |-> date]

\* candidates as fetch_rss_feed builds them; the second carries other content
\* for the URL of the first, the third has no inline content and no category
CandFull == Candidate("t1", "u1", SumFeed, TextOld, "src1", "ai", "d1")
CandOther == Candidate("t1b", "u1", <<>>, TextNew, "src2", "None", "d2")
CandBare == Candidate("t2", "u2", SumFeed, <<>>, "src1", "None", "d1")

Candidates == {CandFull, CandOther, CandBare}

Batches == UNION {[1..n -> Candidates] : n \in 1..MaxBatch}

\* category = item.get("category"); if not category: look the source up
ResolveCategory(item) ==
    IF item.category # "None" /\ item.category # ""
    THEN item.category
    ELSE SourceCategory(item.source)

Urls(table) == {r.url : r \in table}

BatchUrls(items) == {items[i].url : i \in 1..Len(items)}

IdleSaver ==
    [pc |-> "idle", items |-> <<>>, i |-> 1, view |-> {}, inserted |-> 0,
     repeat |-> FALSE]

\* the call starts: conn = get_connection().  repeat records whether every
\* candidate's URL was already stored when the call started.  The second
\* thread is named only while the first one is saving.
save_news_to_db(p, items) ==
    /\ savers[p].pc \in {"idle", "done"}
    /\ p = "t2" => savers["t1"].pc = "loop"
    /\ saves < MaxSaves
    /\ saves' = saves + 1
    /\ savers' = [savers EXCEPT ![p] =
           [pc |-> "loop", items |-> items, i |-> 1, view |-> {},
            inserted |-> 0, repeat |-> BatchUrls(items) \subseteq Urls(news)]]
    /\ UNCHANGED <<dbVars, db_writer, reqVars, refetchVars, pipeVars>>

\* one pass of the loop body: the INSERT OR IGNORE executes
save_item(p) ==
    LET s == savers[p]
        item == s.items[s.i]
        before == IF db_writer = p THEN s.view ELSE news
        after == InsertOrIgnoreNews(before, news_seq + s.inserted + 1, item,
                                    ResolveCategory(item))
    IN  /\ s.pc = "loop"
        /\ s.i <= Len(s.items)
        /\ db_writer \in {"none", p}
        /\ db_writer' = p
        /\ savers' = [savers EXCEPT ![p].view = after, ![p].i = s.i + 1,
               ![p].inserted = s.inserted + Cardinality(after \ before)]
        /\ UNCHANGED <<dbVars, saves, reqVars, refetchVars, pipeVars>>

\* one pass of the loop body: the INSERT raises, the handler prints and continues
save_item_error(p) ==
    LET s == savers[p]
    IN  /\ s.pc = "loop"
        /\ s.i <= Len(s.items)
        /\ db_writer \notin {"none", p}
        /\ savers' = [savers EXCEPT ![p].i = s.i + 1]
        /\ UNCHANGED <<dbVars, db_writer, saves, reqVars, refetchVars, pipeVars>>

\* conn.commit(); conn.close()
save_commit(p) ==
    LET s == savers[p]
    IN  /\ s.pc = "loop"
        /\ s.i > Len(s.items)
        /\ IF db_writer = p
           THEN /\ news' = s.view
                /\ news_seq' = news_seq + s.inserted
                /\ db_writer' = "none"
           ELSE UNCHANGED <<news, news_seq, db_writer>>
        /\ savers' = [savers EXCEPT ![p].pc = "done", ![p].view = {},
                                     ![p].items = <<>>, ![p].i = 1]
        /\ UNCHANGED <<analysis, analysis_seq, saves, reqVars, refetchVars, pipeVars>>

-----------------------------------------------------------------------------
(* toggle_star: the CRUD layer sets a lifecycle flag of a stored article *)

toggle_star(news_id, v) ==
    /\ db_writer = "none"
    /\ \E r \in news : r.id = news_id
    /\ news' = UpdateStarred(news, news_id, v)
    /\ UNCHANGED <<news_seq, analysis, analysis_seq, db_writer, saveVars,
                   reqVars, refetchVars, pipeVars>>

-----------------------------------------------------------------------------
(* refetch_news_item *)

NewsIds == 1..2

IdleRefetch == [pc |-> "idle", news_id |-> 0, url |-> "", ret |-> Null,
                raised |-> FALSE]

\* SELECT url ...; raise ValueError when there is no row, else await the fetch
refetch_news_item(news_id) ==
    /\ refetch.pc \in {"idle", "done"}
    /\ refetches < MaxRefetch
    /\ refetches' = refetches + 1
    /\ IF \E r \in news : r.id = news_id
       THEN refetch' = [pc |-> "fetching", news_id |-> news_id,
                        url |-> (CHOOSE r \in news : r.id = news_id).url,
                        ret |-> Null, raised |-> FALSE]
       ELSE refetch' = [pc |-> "done", news_id |-> news_id, url |-> "",
                        ret |-> Null, raised |-> TRUE]
    /\ UNCHANGED <<dbVars, db_writer, saveVars, reqVars, pipeVars>>

\* fetch_url_content returned new_content (Null: it raised); a non-empty
\* text is written to content_raw and returned, anything else returns None
refetch_resume(new_content) ==
    /\ refetch.pc = "fetching"
    /\ IF Truthy(new_content)
       THEN IF db_writer = "none"
            THEN /\ news' = UpdateContent(news, refetch.news_id, new_content)
                 /\ refetch' = [refetch EXCEPT !.pc = "done", !.ret = new_content]
            ELSE /\ refetch' = [refetch EXCEPT !.pc = "done", !.raised = TRUE]
                 /\ UNCHANGED news
       ELSE /\ refetch' = [refetch EXCEPT !.pc = "done", !.ret = Null]
            /\ UNCHANGED news
    /\ UNCHANGED <<news_seq, analysis, analysis_seq, db_writer, saveVars,
                   reqVars, refetches, pipeVars>>

-----------------------------------------------------------------------------
(* The AI service: generate_remote either raises (RemoteModelError, a      *)
(* timeout) or returns a text.  A text is described by what the parser     *)
(* looks at: its wrapping (none, a ```json fence, prose around it) and its *)
(* body (a JSON value, text with braces that is not JSON, text without     *)
(* braces that is not JSON, nothing).                                      *)

Response(wrap, body, value) == [wrap |-> wrap, body |-> body, value |-> value]

TermAB == <<"a", "B">>
TermC == <<"C">>
TermZ == <<"z">>

PayloadA ==
    JObj(FALSE, "", "str", SumA, "list",
         <<TermItem(TermAB), TermItem(TermZ), ItemNoTerm, TermItem(TermC)>>)

PayloadB == JObj(TRUE, "bogus", "str", SumB, "absent", <<>>)

PayloadC == JObj(FALSE, "", "num", <<>>, "list", <<ItemNumTerm, ItemNotDict>>)

Responses ==
    {Response("plain", "json", PayloadA),
     Response("prose", "json", PayloadB),
     Response("fenced", "json", PayloadC),
     Response("plain", "json", JOther("list")),
     Response("fenced", "json", JOther("num")),
     Response("prose", "json", JOther("list")),
     Response("plain", "braces", JNone),
     Response("plain", "empty", JNone)}

AIOutcomes ==
    {[ok |-> FALSE, resp |-> Response("plain", "empty", JNone)]}
        \cup {[ok |-> TRUE, resp |-> x] : x \in Responses}

\* re.search(r"\{.*\}", response_text, re.DOTALL) finds a match
RegexMatch(resp) ==
    resp.body = "braces" \/ (resp.body = "json" /\ resp.value.kind = "obj")

\* response_text.find('{') != -1 and response_text.rfind('}') + 1 != 0
HasBraces(resp) ==
    resp.body = "braces" \/ (resp.body = "json" /\ resp.value.kind = "obj")

\* the text from the first { to the last }
BraceCandidate(resp) == [resp EXCEPT !.wrap = "plain"]

\* cleaned = response_text.strip(), less a leading ```json and a trailing ```
StripFence(resp) ==
    IF resp.wrap = "fenced" THEN [resp EXCEPT !.wrap = "plain"] ELSE resp

\* json.loads of a text: it parses when the text is exactly a JSON value
LoadsText(text) ==
    [ok |-> text.body = "json" /\ text.wrap = "plain", data |-> text.value]

\* lines 436-472: [ok, data]; ok = FALSE is the "Error parsing AI response."
\* return
ParseResponse(resp) ==
    LET first == IF RegexMatch(resp)
                 THEN LoadsText(BraceCandidate(resp))
                 ELSE LoadsText(StripFence(resp))
        second == IF HasBraces(resp)
                  THEN LoadsText(BraceCandidate(resp))
                  ELSE [ok |-> FALSE, data |-> JNone]
    IN  IF first.ok THEN first
        ELSE IF second.ok THEN second
        ELSE [ok |-> FALSE, data |-> JNone]

-----------------------------------------------------------------------------
(* Vocabulary validation *)

\* the loop raises: the value is not iterable, item.get fails on an entry
\* that is not a dict, or term.lower() fails on a term that is not a string
VocabRaises(data) ==
    \/ data.vocKind = "other"
    \/ \E i \in 1..Len(data.vocabulary) :
          \/ data.vocabulary[i].kind # "dict"
          \/ data.vocabulary[i].termKind = "num"

\* the cache-hit loop keeps every entry (lines 374-378)
KeepAll(item, content_check) == TRUE

\* lines 374-378: if term and term.lower() in content_check
KeepCached(item, content_check) ==
    /\ item.termKind = "str"
    /\ Truthy(item.term)
    /\ IsSubstr(Lower(item.term), content_check)

\* the fresh loop skips only entries without a term (lines 481-482)
KeepTermed(item, content_lower) == item.termKind = "str" /\ Truthy(item.term)

\* lines 480-486: skip when not term, skip when term.lower() not in content_lower
KeepFresh(item, content_lower) ==
    /\ item.termKind = "str"
    /\ Truthy(item.term)
    /\ IsSubstr(Lower(item.term), content_lower)

ValidateCached(data, content_check) ==
    LET Keep(item) == KeepCached(item, content_check)
    IN  [data EXCEPT !.vocabulary = SelectSeq(data.vocabulary, Keep)]

ValidateFresh(data, content_lower) ==
    LET Keep(item) == KeepFresh(item, content_lower)
    IN  [data EXCEPT !.vocabulary = SelectSeq(data.vocabulary, Keep)]

-----------------------------------------------------------------------------
(* analyze_article.  The coroutine runs without suspension from its entry  *)
(* to `await generate_remote(...)` and from the service's answer to its    *)
(* return; the two halves are the two actions.                             *)

\* a request record: pc, the arguments (mode after line 341), the title and
\* content read at line 387, cached (the call returned from the cache-hit
\* branch) and ret, what the call returned
Reqs == {"r1", "r2"}

ValidScopes == {"summary", "structure", "vocabulary"}

ValidModes == {"english_learner", "ai_learner"}

\* config.DEFAULT_MODEL_NAME
ModelName == "MiniMax-M2.1"

PersistOutcomes == {"ok", "fail_insert", "fail_update", "fail_commit"}

\* if user_mode not in PROMPT_REGISTRY: user_mode = "english_learner"
NormalizeMode(user_mode) ==
    IF user_mode \notin ValidModes THEN "english_learner" ELSE user_mode

Ret(kind, data) == [kind |-> kind, data |-> data]

Payload(data) == Ret("payload", data)
ParseError == Ret("parse_error", JNone)
AnalysisFailed == Ret("failed", JNone)
Raised == Ret("raised", JNone)

IdleReq ==
    [pc |-> "idle", news_id |-> 0, scope |-> "", mode |-> "", force |-> FALSE,
     title |-> "", content |-> <<>>, cached |-> FALSE,
     ret |-> Ret("none", JNone)]

\* the server runs a new request in the first slot that holds no coroutine
FreeSlot(r) ==
    /\ reqs[r].pc \in {"idle", "done"}
    /\ r = "r2" => reqs["r1"].pc = "awaiting"

\* the requests clients send: (news_id, scope, user_mode)
Requests ==
    {<<1, "summary", "unknown">>,
     <<1, "vocabulary", "ai_learner">>,
     <<2, "summary", "english_learner">>}

CachedRows(news_id, scope, mode) ==
    {r \in analysis : SameKey(r, news_id, scope, mode)}

\* a lookup that ignores force
CacheLookupAlways(force, news_id, scope, mode) ==
    CachedRows(news_id, scope, mode)

\* lines 351-358: cached_row, which is None when force is set
CacheLookup(force, news_id, scope, mode) ==
    IF force THEN {} ELSE CachedRows(news_id, scope, mode)

\* the hit branch without line 365
CacheHitNoScope(content, scope, news_id) ==
    LET data == Loads(content).data
    IN  IF ~CanSetItem(data) THEN Raised ELSE Payload(data)

\* lines 362-382: the value the cache-hit branch returns (or Raised: only
\* json.JSONDecodeError is handled there)
CacheHit(content, scope, news_id) ==
    LET data == Loads(content).data
        cached_data == SetScope(data, scope)
        rows == {r \in news : r.id = news_id}
    IN  IF ~CanSetItem(data) THEN Raised
        ELSE IF scope = "vocabulary" /\ KeyIn("vocabulary", cached_data) = "yes"
                  /\ rows # {}
        THEN IF VocabRaises(cached_data) THEN Raised
             ELSE Payload(ValidateCached(cached_data,
                              Lower(ArticleText(CHOOSE r \in rows : TRUE))))
        ELSE Payload(cached_data)

\* lines 340-431, up to the await
analyze_article(r, news_id, scope, user_mode, force) ==
    LET mode == NormalizeMode(user_mode)
        cached == CacheLookup(force, news_id, scope, mode)
        rows == {a \in news : a.id = news_id}
        base == [pc |-> "done", news_id |-> news_id, scope |-> scope,
                 mode |-> mode, force |-> force, title |-> "",
                 content |-> <<>>, cached |-> FALSE, ret |-> Raised]
    IN  /\ reqs[r].pc \in {"idle", "done"}
        /\ FreeSlot(r)
        /\ IF scope \notin ValidScopes
           THEN /\ reqs' = [reqs EXCEPT ![r] = base]
                /\ UNCHANGED ai_calls
           ELSE IF cached # {} /\ Loads((CHOOSE c \in cached : TRUE).content).ok
           THEN /\ reqs' = [reqs EXCEPT ![r] = [base EXCEPT
                       !.cached = TRUE,
                       !.ret = CacheHit((CHOOSE c \in cached : TRUE).content,
                                        scope, news_id)]]
                /\ UNCHANGED ai_calls
           ELSE IF rows = {}
           THEN /\ reqs' = [reqs EXCEPT ![r] = base]
                /\ UNCHANGED ai_calls
           ELSE /\ ai_calls < MaxCalls
                /\ reqs' = [reqs EXCEPT ![r] = [base EXCEPT
                       !.pc = "awaiting",
                       !.title = (CHOOSE a \in rows : TRUE).title,
                       !.content = ArticleText(CHOOSE a \in rows : TRUE),
                       !.ret = Ret("none", JNone)]]
                /\ ai_calls' = ai_calls + 1
        /\ UNCHANGED <<dbVars, db_writer, served, saveVars, refetchVars, pipeVars>>

\* lines 474-491 applied to the parsed value: [raised, data]
PostProcess(scope, data, content) ==
    IF scope # "vocabulary" THEN [raised |-> FALSE, data |-> data]
    ELSE IF KeyIn("vocabulary", data) = "raise" THEN [raised |-> TRUE, data |-> data]
    ELSE IF KeyIn("vocabulary", data) = "no" THEN [raised |-> FALSE, data |-> data]
    ELSE IF VocabRaises(data) THEN [raised |-> TRUE, data |-> data]
    ELSE [raised |-> FALSE, data |-> ValidateFresh(data, Lower(content))]

\* line 513-515: the summary the write-back stores, when there is one
WritesSummary(scope, data) ==
    /\ scope = "summary"
    /\ KeyIn("summary", data) = "yes"
    /\ data.sumKind = "str"
    /\ Truthy(data.summary)

\* lines 494-519 run to conn.commit() without raising
Commits(scope, data, persist) ==
    /\ persist # "fail_insert"
    /\ ~(scope = "summary" /\ KeyIn("summary", data) = "raise")
    /\ ~(persist = "fail_update" /\ WritesSummary(scope, data))
    /\ persist # "fail_commit"

\* lines 520-524, and the handler of line 526 when line 523 raises: the
\* persistence handler only prints, so the return does not depend on committed
ReturnFresh(data, scope, committed) ==
    IF CanSetItem(data) THEN Payload(SetScope(data, scope)) ELSE AnalysisFailed

\* history: the write that committed last under a key, what its call
\* returned and the article text that call had read
Serve(news_id, scope, mode, content, ret, text) ==
    {g \in served : ~SameKey(g, news_id, scope, mode)}
        \cup {[news_id |-> news_id, scope |-> scope, mode |-> mode,
               content |-> content, ret |-> ret, text |-> text]}

\* lines 422-534, from the service's answer on.  A failure after the INSERT
\* has executed leaves the function's connection open inside its
\* transaction: it keeps the write lock until the collector closes it.
analyze_resume(r, outcome, persist) ==
    LET q == reqs[r]
        parsed == ParseResponse(outcome.resp)
        post == PostProcess(q.scope, parsed.data, q.content)
        committed == Commits(q.scope, post.data, persist)
        done(ret) == reqs' = [reqs EXCEPT ![r].pc = "done", ![r].ret = ret,
                                          ![r].title = "", ![r].content = <<>>]
    IN  /\ q.pc = "awaiting"
        /\ IF ~outcome.ok
           THEN /\ persist = "ok"
                /\ done(AnalysisFailed)
                /\ UNCHANGED <<dbVars, db_writer, served>>
           ELSE IF ~parsed.ok
           THEN /\ persist = "ok"
                /\ done(ParseError)
                /\ UNCHANGED <<dbVars, db_writer, served>>
           ELSE IF post.raised
           THEN /\ persist = "ok"
                /\ done(AnalysisFailed)
                /\ UNCHANGED <<dbVars, db_writer, served>>
           ELSE /\ done(ReturnFresh(post.data, q.scope, committed))
                /\ db_writer # "none" => persist = "fail_insert"
                /\ IF committed
                   THEN /\ analysis' = UpsertAnalysis(analysis, analysis_seq + 1,
                               q.news_id, q.scope, q.mode, Dumps(post.data),
                               ModelName)
                        /\ analysis_seq' =
                               IF CachedRows(q.news_id, q.scope, q.mode) = {}
                               THEN analysis_seq + 1 ELSE analysis_seq
                        /\ news' = IF WritesSummary(q.scope, post.data)
                                   THEN UpdateSummary(news, q.news_id,
                                                      post.data.summary)
                                   ELSE news
                        /\ served' = Serve(q.news_id, q.scope, q.mode,
                               Dumps(post.data),
                               ReturnFresh(post.data, q.scope, committed),
                               q.content)
                        /\ UNCHANGED <<news_seq, db_writer>>
                   ELSE /\ db_writer' = IF persist = "fail_insert"
                                        THEN db_writer ELSE "leaked"
                        /\ UNCHANGED <<dbVars, served>>
        /\ UNCHANGED <<saveVars, ai_calls, refetchVars, pipeVars>>

\* the collector closes a leaked connection: its transaction rolls back
close_leaked_connection ==
    /\ db_writer = "leaked"
    /\ db_writer' = "none"
    /\ UNCHANGED <<dbVars, saveVars, reqVars, refetchVars, pipeVars>>

-----------------------------------------------------------------------------
(* The ingestion pipeline: fetch_all_news, fetch_rss_feed, fetch_url_content, *)
(* clean_html and clean_extracted_text.                                      *)

IdleFetch == [pc |-> "idle", sources |-> <<>>, tasks |-> <<>>, all_news |-> <<>>]

IdleClean == [pc |-> "idle", pre |-> <<>>, blank |-> <<>>, blanks |-> 0, post |-> <<>>,
              text |-> <<>>, out |-> <<>>]

(* Pipeline text is a sequence of tokens: "\n" ends a line, " " is white   *)
(* space, "|" and "-" are themselves, a tag token such as "<p>" is HTML    *)
(* markup, and every other token is a run of characters no pattern looks   *)
(* into: "a" a word, "G" the phrase `Got a Tip?`, and the blocks of        *)
(* BlockLen, which stand for that many characters of prose.                *)

NL == "\n"

WS == {" "}

Pipe == {"|"}

\* tokens in which contact|tip|reporter|signal|securely occurs (IGNORECASE)
Keyword == {"G", "R"}

\* one element of a pattern: a token class, possibly negated, and how many
\* times it repeats (max < 0: no upper limit)
Item(set, neg, min, max) == [set |-> set, neg |-> neg, min |-> min, max |-> max]


InClass(c, item) == (c \in item.set) # item.neg

\* the positions where a match of one element that starts at i can end
Reps(item, line, i) ==
    {j \in (i + item.min)..(Len(line) + 1) :
        /\ item.max < 0 \/ j - i <= item.max
        /\ \A m \in i..(j - 1) : InClass(line[m], item)}

\* the positions where a match of pat[k..] that starts at i can end
RECURSIVE Ends(_, _, _, _)
Ends(pat, k, line, i) ==
    IF k > Len(pat) THEN {i}
    ELSE UNION {Ends(pat, k + 1, line, j) : j \in Reps(pat[k], line, i)}

\* re.search of a pattern: anchored at the start (^) and/or at the end ($)
Search(pat, line, atStart, atEnd) ==
    \E i \in 1..(Len(line) + 1) :
        /\ atStart => i = 1
        /\ \E j \in Ends(pat, 1, line, i) : atEnd => j = Len(line) + 1

\* r'\|\s*Got a Tip\?\s*\|?\s*\|?-+\|?\s*\|[^|]+\|?'
TipBlock ==
    <<Item(Pipe, FALSE, 1, 1), Item(WS, FALSE, 0, -1), Item({"G"}, FALSE, 1, 1), Item(WS, FALSE, 0, -1), Item(Pipe, FALSE, 0, 1), Item(WS, FALSE, 0, -1), Item(Pipe, FALSE, 0, 1),
      Item({"-"}, FALSE, 1, -1), Item(Pipe, FALSE, 0, 1), Item(WS, FALSE, 0, -1), Item(Pipe, FALSE, 1, 1), Item(Pipe, TRUE, 1, -1), Item(Pipe, FALSE, 0, 1)>>

\* r'^\s*\|?\s*Got a Tip\?\s*\|?\s*$' (and its lower-case twin)
TipLine ==
    <<Item(WS, FALSE, 0, -1), Item(Pipe, FALSE, 0, 1), Item(WS, FALSE, 0, -1), Item({"G"}, FALSE, 1, 1), Item(WS, FALSE, 0, -1), Item(Pipe, FALSE, 0, 1), Item(WS, FALSE, 0, -1)>>

\* r'^\s*\|[-\s|]+\|\s*$'
SeparatorLine ==
    <<Item(WS, FALSE, 0, -1), Item(Pipe, FALSE, 1, 1), Item({"-", " ", "|"}, FALSE, 1, -1), Item(Pipe, FALSE, 1, 1), Item(WS, FALSE, 0, -1)>>

\* r'^\s*\|[^|]*(?:contact|tip|reporter|signal|securely)[^|]*\|?\s*$'
KeywordLine ==
    <<Item(WS, FALSE, 0, -1), Item(Pipe, FALSE, 1, 1), Item(Pipe, TRUE, 0, -1), Item(Keyword, FALSE, 1, 1), Item(Pipe, TRUE, 0, -1),
      Item(Pipe, FALSE, 0, 1), Item(WS, FALSE, 0, -1)>>

\* r'\s*\|\s*$'
TrailingPipe == <<Item(WS, FALSE, 0, -1), Item(Pipe, FALSE, 1, 1), Item(WS, FALSE, 0, -1)>>

\* r'^\s*\|\s+(?![^\n]*\|)': a leading pipe, white space, and no pipe after
LeadingLonePipe(line) ==
    \E j \in Ends(<<Item(WS, FALSE, 0, -1), Item(Pipe, FALSE, 1, 1), Item(WS, FALSE, 1, -1)>>, 1, line, 1) :
        \A m \in j..Len(line) : line[m] # "|"

Contains(line, tok) == \E i \in 1..Len(line) : line[i] = tok

\* lines 151-158: some junk pattern is found in the line
JunkLine(line) ==
    \/ Search(TipBlock, line, FALSE, FALSE)
    \/ Search(TipLine, line, TRUE, TRUE)
    \/ Search(SeparatorLine, line, TRUE, TRUE)
    \/ Search(KeywordLine, line, TRUE, TRUE)
    \/ Contains(line, "Q")
    \/ Contains(line, "R")
    \/ Search(TrailingPipe, line, FALSE, TRUE)
    \/ LeadingLonePipe(line)

\* line 162: regex.sub(r'\s*\|\s*$', '', line)
SubTrailingPipe(line) ==
    LET starts == {i \in 1..(Len(line) + 1) :
                      Len(line) + 1 \in Ends(TrailingPipe, 1, line, i)}
    IN  IF starts = {} THEN line
        ELSE SubSeq(line, 1, (CHOOSE i \in starts : \A k \in starts : i <= k) - 1)

\* text.split('\n')
RECURSIVE Split(_)
Split(text) ==
    IF \A i \in 1..Len(text) : text[i] # NL THEN <<text>>
    ELSE LET k == CHOOSE i \in 1..Len(text) :
                      text[i] = NL /\ \A m \in 1..(i - 1) : text[m] # NL
         IN  <<SubSeq(text, 1, k - 1)>> \o Split(SubSeq(text, k + 1, Len(text)))

\* '\n'.join(lines)
RECURSIVE Join(_)
Join(lines) ==
    IF lines = <<>> THEN <<>>
    ELSE IF Len(lines) = 1 THEN lines[1]
    ELSE lines[1] \o <<NL>> \o Join(Tail(lines))

\* a result that keeps every run of newlines as it is
KeepRuns(text) == text

\* regex.sub(r'\n{3,}', '\n\n', result)
RECURSIVE CollapseRuns(_)
CollapseRuns(text) ==
    IF Len(text) < 3 THEN text
    ELSE IF text[1] = NL /\ text[2] = NL /\ text[3] = NL
    THEN CollapseRuns(Tail(text))
    ELSE <<text[1]>> \o CollapseRuns(Tail(text))

\* str.strip()
RECURSIVE Strip(_)
Strip(text) ==
    IF text = <<>> THEN text
    ELSE IF text[1] \in {" ", NL} THEN Strip(Tail(text))
    ELSE IF text[Len(text)] \in {" ", NL} THEN Strip(SubSeq(text, 1, Len(text) - 1))
    ELSE text

\* lines 148-165: the lines that are kept
RECURSIVE KeptLines(_)
KeptLines(lines) ==
    IF lines = <<>> THEN <<>>
    ELSE IF JunkLine(lines[1]) THEN KeptLines(Tail(lines))
    ELSE <<SubTrailingPipe(lines[1])>> \o KeptLines(Tail(lines))

\* clean_extracted_text(text)
clean_extracted_text(text) ==
    IF text = <<>> THEN text
    ELSE Strip(CollapseRuns(Join(KeptLines(Split(text)))))

\* lines of a refined text: a word, `| Got a Tip? |`, `|---|` and the
\* table row `| a | a |`
LineWord == <<"a">>
LineTip == <<"|", " ", "G", " ", "|">>
LineSeparator == <<"|", "-", "-", "-", "|">>
LineRow == <<"|", " ", "a", " ", "|", " ", "a", " ", "|">>

Lines == {LineWord, LineTip, LineSeparator, LineRow}

\* the texts handed to the cleaner: up to MaxSide lines, a run of up to
\* MaxBlank blank lines, at most one more line
Sides == UNION {[1..n -> Lines] : n \in 0..MaxSide}

Tails == {<<>>} \cup {<<l>> : l \in Lines}

\* a blank line is empty or holds whitespace only
BlankLine == {<<>>, <<" ">>}


\* the cleaner is handed a text
clean_begin(pre, b, k, post) ==
    /\ clean.pc = "idle"
    /\ clean' = [pc |-> "in", pre |-> pre, blank |-> b, blanks |-> k, post |-> post,
                 text |-> Join(pre \o [i \in 1..k |-> b] \o post), out |-> <<>>]
    /\ UNCHANGED <<dbVars, db_writer, saveVars, reqVars, refetchVars, fetch>>

\* line 283: result = clean_extracted_text(result)
clean_return ==
    /\ clean.pc = "in"
    /\ clean' = [clean EXCEPT !.pc = "out", !.out = clean_extracted_text(clean.text)]
    /\ UNCHANGED <<dbVars, db_writer, saveVars, reqVars, refetchVars, fetch>>

-----------------------------------------------------------------------------
(* Lengths and HTML.  A block token stands for a run of that many          *)
(* characters of prose; a document is a sequence of text tokens, <p> and   *)
(* <div> tags and the marked section `<![x y]>`, which html.parser rejects.*)

BlockLen ==
    ("B200" :> 200) @@ ("B400" :> 400) @@ ("B500" :> 500) @@ ("B1400" :> 1400)
        @@ ("B1500" :> 1500) @@ ("B5000" :> 5000)

Tags == {"<p>", "</p>", "<div>", "</div>"}

Declaration == "<![x]>"


\* the number of characters a token stands for
TokenLen(c) ==
    IF c \in DOMAIN BlockLen THEN BlockLen[c]
    ELSE CASE c = "G" -> 10
           [] c = "<p>" -> 3
           [] c = "</p>" -> 4
           [] c = "<div>" -> 5
           [] c = "</div>" -> 6
           [] c = Declaration -> 8
           [] OTHER -> 1

\* len(text)
RECURSIVE TextLen(_)
TextLen(text) ==
    IF text = <<>> THEN 0 ELSE TokenLen(Head(text)) + TextLen(Tail(text))

\* text[:n]
RECURSIVE Prefix(_, _)
Prefix(text, n) ==
    IF text = <<>> \/ n = 0 THEN <<>>
    ELSE IF TokenLen(Head(text)) <= n
    THEN <<Head(text)>> \o Prefix(Tail(text), n - TokenLen(Head(text)))
    ELSE <<CHOOSE b \in DOMAIN BlockLen : BlockLen[b] = n>>

\* BeautifulSoup(html, "html.parser") raises ParserRejectedMarkup
Rejected(html) == Contains(html, Declaration)

\* lines 377-390: the text of an element holds a junk phrase ("Q": `Are you
\* a current or former tech worker`)
JunkElement(inner) ==
    \/ Contains(inner, "G")
    \/ Contains(inner, "R")
    \/ Contains(inner, "Q")
    \/ IsSubstr(<<"|", "-", "-", "-", "|">>, inner)

\* the index from i of the tag that closes the element open at depth 0
\* (Len(text) + 1 when the document ends first)
RECURSIVE CloseAt(_, _, _)
CloseAt(text, i, depth) ==
    IF i > Len(text) THEN i
    ELSE IF text[i] \in {"</p>", "</div>"}
    THEN IF depth = 0 THEN i ELSE CloseAt(text, i + 1, depth - 1)
    ELSE IF text[i] \in {"<p>", "<div>"} THEN CloseAt(text, i + 1, depth + 1)
    ELSE CloseAt(text, i + 1, depth)

\* lines 366-390: find_all(["p", "div", "span"]) in document order; an
\* element whose text, with that of its descendants, holds a junk phrase is
\* decomposed with all it contains
RECURSIVE DropJunk(_)
DropJunk(html) ==
    IF \A i \in 1..Len(html) : html[i] \notin {"<p>", "<div>"} THEN html
    ELSE LET k == CHOOSE i \in 1..Len(html) :
                      /\ html[i] \in {"<p>", "<div>"}
                      /\ \A j \in 1..(i - 1) : html[j] \notin {"<p>", "<div>"}
             rest == SubSeq(html, k + 1, Len(html))
             m == CloseAt(rest, 1, 0)
             inner == SubSeq(rest, 1, m - 1)
             NotTag(c) == c \notin Tags
         IN  SubSeq(html, 1, k - 1)
                 \o (IF JunkElement(SelectSeq(inner, NotTag)) THEN <<>>
                     ELSE <<html[k]>> \o DropJunk(inner)
                              \o SubSeq(rest, m, IF m > Len(rest) THEN m - 1 ELSE m))
                 \o DropJunk(SubSeq(rest, m + 1, Len(rest)))

\* the text nodes of a document, in order
RECURSIVE TextNodes(_)
TextNodes(html) ==
    IF \A i \in 1..Len(html) : html[i] \notin Tags THEN <<html>>
    ELSE LET k == CHOOSE i \in 1..Len(html) :
                      html[i] \in Tags /\ \A m \in 1..(i - 1) : html[m] \notin Tags
         IN  <<SubSeq(html, 1, k - 1)>> \o TextNodes(SubSeq(html, k + 1, Len(html)))

\* the stripped, non-empty nodes joined by "\n\n"
RECURSIVE JoinNodes(_)
JoinNodes(nodes) ==
    IF nodes = <<>> THEN <<>>
    ELSE LET node == Strip(nodes[1])
             rest == JoinNodes(Tail(nodes))
         IN  IF node = <<>> THEN rest
             ELSE IF rest = <<>> THEN node
             ELSE node \o <<NL, NL>> \o rest

\* soup.get_text(separator="\n\n", strip=True)
GetText(html) == JoinNodes(TextNodes(html))

\* clean_html(html_content): the text of the document, or the document as
\* it is when the parser raises
clean_html(html_content) ==
    IF ~Truthy(html_content) THEN <<>>
    ELSE IF Rejected(html_content) THEN html_content
    ELSE GetText(DropJunk(html_content))

\* documents of up to MaxBlocks blocks: a paragraph of prose or of a junk
\* idiom, or paragraphs nested in one or two <div> elements
Docs ==
    LET Paras == {<<"<p>">> \o x \o <<"</p>">> :
                     x \in {<<"a">>, <<"b">>, LineTip, LineSeparator,
                            <<"|", " ", "Q", " ", "|">>}}
        Blocks ==
            Paras
                \cup {<<"<div>">> \o p \o <<"</div>">> : p \in Paras}
                \cup {<<"<div>">> \o p \o q \o <<"</div>">> :
                         p \in {<<"<p>", "a", "</p>">>}, q \in Paras}
                \cup {<<"<div>">> \o p \o q \o <<"</div>">> :
                         p \in Paras, q \in {<<"<p>", "a", "</p>">>}}
                \cup {<<"<div>", "<div>">> \o p \o <<"</div>", "</div>">> : p \in Paras}
        RECURSIVE DocsOf(_)
        DocsOf(n) ==
            IF n = 0 THEN {<<>>}
            ELSE DocsOf(n - 1) \cup {d \o b : d \in DocsOf(n - 1), b \in Blocks}
    IN  DocsOf(MaxBlocks)

\* lines 424 and 427: clean_html is applied to a document of a feed entry
clean_html_call(doc) ==
    /\ clean.pc = "idle"
    /\ clean' = [IdleClean EXCEPT !.pc = "html", !.text = doc, !.out = clean_html(doc)]
    /\ UNCHANGED <<dbVars, db_writer, saveVars, reqVars, refetchVars, fetch>>

\* the text holds HTML markup
HasMarkup(text) == \E i \in 1..Len(text) : text[i] \in Tags \cup {Declaration}

-----------------------------------------------------------------------------
(* fetch_url_content.  A page is what the servers answer: the status of    *)
(* the GET (or the exception it raises), the HTML, what trafilatura        *)
(* extracts from it (Null: None) and what the AI service does.             *)

Page(status, html, traf, llm, text) ==
    [status |-> status, html |-> html, traf |-> traf, llm |-> llm, text |-> text]

\* how a call ends; called: generate_remote was called on the way
Raise == [raised |-> TRUE, value |-> Null, called |-> FALSE]

Return(value) == [raised |-> FALSE, value |-> value, called |-> FALSE]

\* extract_content_with_llm: None (Null) or the refined, post-filtered text;
\* get_setting is called outside the try
extract_content_with_llm(html_content, llm, text) ==
    IF llm = "settings_error" THEN Raise
    ELSE IF llm = "no_key" THEN Return(Null)
    ELSE IF Rejected(html_content) THEN Return(Null)
    ELSE IF llm = "error" THEN [Return(Null) EXCEPT !.called = TRUE]
    ELSE IF Contains(Strip(text), "E") THEN [Return(Null) EXCEPT !.called = TRUE]
    ELSE [Return(clean_extracted_text(Strip(text))) EXCEPT !.called = TRUE]

\* lines 306-342: the body of the try
FetchUrlBody(page) ==
    IF page.status # "ok" THEN Raise
    ELSE LET refined == extract_content_with_llm(page.html, page.llm, page.text)
             Called(end) == [end EXCEPT !.called = refined.called]
         IN  IF refined.raised THEN Raise
             ELSE IF Truthy(refined.value) /\ TextLen(refined.value) > 300
             THEN refined
             ELSE IF Truthy(page.traf) /\ TextLen(page.traf) > 100
             THEN Called(Return(page.traf))
             ELSE IF Rejected(page.html) THEN Called(Raise)
             ELSE Called(Return(GetText(page.html)))

\* a pipeline without the handler of lines 344-346
fetch_url_content_unguarded(page) == FetchUrlBody(page)

\* a pipeline that asks the AI service only for pages on which the heuristic
\* extractor produced less than 300 characters
fetch_url_content_staged(page) ==
    IF page.status = "ok" /\ Truthy(page.traf) /\ TextLen(page.traf) >= 300
    THEN Return(page.traf)
    ELSE IF FetchUrlBody(page).raised
    THEN [Return(<<>>) EXCEPT !.called = FetchUrlBody(page).called]
    ELSE FetchUrlBody(page)

\* fetch_url_content(url): except Exception: return ""
fetch_url_content(page) ==
    IF FetchUrlBody(page).raised
    THEN [Return(<<>>) EXCEPT !.called = FetchUrlBody(page).called]
    ELSE FetchUrlBody(page)

-----------------------------------------------------------------------------
(* fetch_all_news: one fetch_source task per enabled source, gathered.     *)
(* A URL is named by a string; Spell gives its characters.                 *)

Spell ==
    ("" :> <<>>) @@ ("u1" :> <<"o", "/", "1">>) @@ ("u2" :> <<"o", "/", "2">>)
        @@ ("uw" :> <<"o", "/", "r", "e", "w", "i", "r", "e", "d">>)

\* two seeded sources, and a source added by add_news_source under the name
\* of the first
SrcOpenAI == [id |-> 1, name |-> "OpenAI", rss_url |-> "f1", category |-> "research"]
SrcWired == [id |-> 29, name |-> "Wired AI", rss_url |-> "f29", category |-> "media"]
SrcAdded == [id |-> 39, name |-> "OpenAI", rss_url |-> "f39", category |-> "blog"]

\* an entry of a parsed feed: published is the date it carries, "none", or
\* "bad" for a time tuple datetime() rejects
Entry(title, link, summary, content, published) ==
    [title |-> title, link |-> link, summary |-> summary, content |-> content,
     published |-> published]

NoPage == Page("none", <<>>, Null, "none", <<>>)

\* lines 435-442: should_fetch
ShouldFetch(url, content_clean, summary_clean) ==
    \/ TextLen(content_clean) < 2000
    \/ IsSubstr(<<"t", "e", "c", "h", "c", "r", "u", "n", "c", "h">>, Spell[url])
    \/ IsSubstr(<<"w", "i", "r", "e", "d">>, Spell[url])
    \/ TextLen(content_clean) < TextLen(summary_clean) + 100

\* lines 411-462: one pass of the loop body on an entry, when the page
\* server and the AI service answer as page says
ProcessEntry(source, entry, page) ==
    LET url == entry.link
        summary_clean == clean_html(entry.summary)
        \* lines 412-421: the concatenated content elements, else the summary
        content_encoded ==
            IF Truthy(entry.content) THEN entry.content ELSE entry.summary
        content_clean == clean_html(content_encoded)
        bad == entry.published = "bad"
        should_fetch == ShouldFetch(url, content_clean, summary_clean)
        fetched == ~bad /\ should_fetch /\ url # ""
        full_text == IF fetched THEN fetch_url_content(page) ELSE Return(<<>>)
        got == [full_text EXCEPT !.called = FALSE]
        final_content ==
            IF fetched /\ ~got.raised /\ TextLen(got.value) > TextLen(content_clean)
            THEN got.value
            ELSE content_clean
    IN  [raised |-> bad \/ got.raised,
         entry |-> entry,
         should_fetch |-> should_fetch,
         fetched |-> fetched,
         page |-> IF fetched THEN page ELSE NoPage,
         got |-> got,
         ai_called |-> full_text.called,
         item |-> Candidate(entry.title, url, Prefix(summary_clean, 500),
                            final_content, source.name, source.category,
                            IF entry.published = "none" THEN "now"
                            ELSE entry.published)]

-----------------------------------------------------------------------------
(* Feeds and pages *)

\* the entries of the model
ItemEntries ==
    {\* t1: no content element and a short summary
     Entry("t1", "u1", <<"<p>", "a", "</p>">>, <<>>, "d1"),
     \* t2: content of 5000 characters and a summary of 200
     Entry("t2", "u2", <<"B200">>, <<"<p>", "B5000", "</p>">>, "d1"),
     \* t3: the same lengths, under a link that spells o/rewired
     Entry("t3", "uw", <<"B200">>, <<"<p>", "B5000", "</p>">>, "none"),
     \* t4: no content element and a summary of 5000 characters
     Entry("t4", "u1", <<"B5000">>, <<>>, "d1"),
     \* t5: content of 1500 characters and a summary of 1400
     Entry("t5", "u2", <<"B1400">>, <<"B1500">>, "d1"),
     \* t6: content the parser rejects
     Entry("t6", "u2", <<"B200">>, <<"<p>", "B5000", "</p>", Declaration>>, "d1"),
     \* t7: a time tuple datetime() rejects
     Entry("t7", "u2", <<"a">>, <<>>, "bad"),
     \* t8: no link, and a tip paragraph in the summary
     Entry("t8", "", <<"<p>", "G", "</p>", "<p>", "a", "</p>">>, <<>>, "none")}

\* the answers of the page server and the AI service to one fetch
ItemPages ==
    LET Html400 == <<"<p>", "B400", "</p>">>
    IN  {\* the request fails: status >= 400, timeout, connection error
         Page("http_error", <<>>, Null, "none", <<>>),
         Page("timeout", <<>>, Null, "none", <<>>),
         Page("conn_error", <<>>, Null, "none", <<>>),
         \* the AI service refines the page
         Page("ok", Html400, <<"B400">>, "text", <<" ", "B400", NL>>),
         \* the AI service answers with a Markdown table
         Page("ok", Html400, <<"B400">>, "text",
              <<"B400", NL>> \o LineRow \o <<NL>> \o LineSeparator \o <<NL>>
                  \o LineRow),
         \* the AI service fails
         Page("ok", Html400, <<"B400">>, "error", <<>>),
         \* the AI service fails on a page whose heuristic text has a tip line
         Page("ok", Html400, <<"B400", NL>> \o LineTip, "error", <<>>),
         \* a short page and a short answer
         Page("ok", <<"<p>", "B200", "</p>">>, <<"a">>, "text", <<"a">>),
         \* the AI service answers ERROR: No content
         Page("ok", Html400, <<"B400">>, "text", <<"E">>),
         \* an empty body
         Page("ok", <<>>, Null, "error", <<>>),
         \* a body the parser rejects
         Page("ok", <<"<p>", "a", "</p>", Declaration>>, Null, "text", <<"B400">>),
         \* the AI service answers with markup
         Page("ok", Html400, <<"B400">>, "text", Html400),
         \* no API key configured
         Page("ok", Html400, <<"a">>, "no_key", <<>>),
         \* the settings table cannot be read
         Page("ok", Html400, <<"B400">>, "settings_error", <<>>)}

\* feeds of up to MaxEntries entries, of the short entry and the entry with
\* the rejected date
Feeds ==
    UNION {[1..k -> {e \in ItemEntries : e.title \in {"t1", "t7"}}] :
              k \in 0..MaxEntries}

\* the outcomes of the loop body on every source, entry and page of the model
Processed ==
    {[source |-> x[1], page |-> x[3], done |-> ProcessEntry(x[1], x[2], x[3])] :
        x \in {SrcOpenAI, SrcWired, SrcAdded} \X ItemEntries
                  \X (ItemPages \cup {NoPage})}

Task(pc, feed, i, items, log) ==
    [pc |-> pc, feed |-> feed, i |-> i, items |-> items, log |-> log]

\* d[key] = value on a dict kept in insertion order
DictSet(d, key, value) ==
    IF \E k \in 1..Len(d) : d[k].name = key
    THEN [k \in 1..Len(d) |->
             IF d[k].name = key THEN [name |-> key, items |-> value] ELSE d[k]]
    ELSE Append(d, [name |-> key, items |-> value])

\* lines 497-504: all_news after the first n sources
RECURSIVE AllNews(_, _, _)
AllNews(sources, tasks, n) ==
    IF n = 0 THEN <<>>
    ELSE DictSet(AllNews(sources, tasks, n - 1), sources[n].name, tasks[n].items)

\* all_news[name]
DictGet(d, key) == d[CHOOSE k \in 1..Len(d) : d[k].name = key].items

\* save_news_to_db(items) on a connection that meets no other writer
RECURSIVE SaveItems(_, _, _)
SaveItems(table, seq, items) ==
    IF items = <<>> THEN table
    ELSE LET after == InsertOrIgnoreNews(table, seq + 1, Head(items),
                                         ResolveCategory(Head(items)))
         IN  SaveItems(after, seq + Cardinality(after \ table), Tail(items))

\* for source_news in all_news.values(): save_news_to_db(source_news)
RECURSIVE SaveAll(_, _, _)
SaveAll(table, seq, d) ==
    IF d = <<>> THEN table
    ELSE LET after == SaveItems(table, seq, Head(d).items)
         IN  SaveAll(after, seq + Cardinality(after \ table), Tail(d))

\* fetch_all_news reads the enabled sources and starts their tasks
fetch_all_news(sources) ==
    /\ fetch.pc = "idle"
    /\ fetch' = [pc |-> "gather", sources |-> sources,
                 tasks |-> [n \in 1..Len(sources) |->
                              IF sources[n].rss_url # "None"
                              THEN Task("parse", <<>>, 1, <<>>, <<>>)
                              ELSE Task("returned", <<>>, 1, <<>>, <<>>)],
                 all_news |-> <<>>]
    /\ UNCHANGED <<dbVars, db_writer, saveVars, reqVars, refetchVars, clean>>

\* line 407: the feed server answers with a feed
rss_parse(n, entries) ==
    /\ fetch.pc = "gather"
    /\ n \in 1..Len(fetch.tasks)
    /\ fetch.tasks[n].pc = "parse"
    /\ LET \* line 408: feed.entries[:10]
           first10 == SubSeq(entries, 1,
                             IF Len(entries) < 10 THEN Len(entries) ELSE 10)
       IN  fetch' = [fetch EXCEPT !.tasks[n] =
               IF first10 = <<>>
               THEN Task("returned", <<>>, 1, <<>>, <<>>)
               ELSE Task("items", first10, 1, <<>>, <<>>)]
    /\ UNCHANGED <<dbVars, db_writer, saveVars, reqVars, refetchVars, clean>>

\* line 407: fetching or parsing the feed raises; lines 466-468 return []
rss_parse_error(n) ==
    /\ fetch.pc = "gather"
    /\ n \in 1..Len(fetch.tasks)
    /\ fetch.tasks[n].pc = "parse"
    /\ fetch' = [fetch EXCEPT !.tasks[n] = Task("returned", <<>>, 1, <<>>, <<>>)]
    /\ UNCHANGED <<dbVars, db_writer, saveVars, reqVars, refetchVars, clean>>

\* line 407: the feed server accepts the connection and never answers;
\* feedparser.parse reads it on a socket without a timeout
rss_parse_hang(n) ==
    /\ fetch.pc = "gather"
    /\ n \in 1..Len(fetch.tasks)
    /\ fetch.tasks[n].pc = "parse"
    /\ fetch' = [fetch EXCEPT !.tasks[n].pc = "blocked"]
    /\ UNCHANGED <<dbVars, db_writer, saveVars, reqVars, refetchVars, clean>>

\* one pass of the loop body; an exception ends the function with []
\* (lines 466-468), the last pass returns news_items
rss_item(n, page) ==
    /\ fetch.pc = "gather"
    /\ n \in 1..Len(fetch.tasks)
    /\ fetch.tasks[n].pc = "items"
    /\ LET t == fetch.tasks[n]
           done == (CHOOSE x \in Processed :
                       /\ x.source = fetch.sources[n]
                       /\ x.done.entry = t.feed[t.i]
                       /\ x.page = page).done
       IN  /\ page = done.page
           /\ done.fetched <=> page # NoPage
           /\ fetch' = [fetch EXCEPT !.tasks[n] =
                 IF done.raised
                 THEN Task("returned", t.feed, t.i, <<>>, Append(t.log, done))
                 ELSE Task(IF t.i = Len(t.feed) THEN "returned" ELSE "items",
                           t.feed, t.i + 1, Append(t.items, done.item),
                           Append(t.log, done))]
    /\ UNCHANGED <<dbVars, db_writer, saveVars, reqVars, refetchVars, clean>>

\* lines 495-506: gather has every result; all_news is built and returned
gather_return ==
    /\ fetch.pc = "gather"
    /\ \A n \in 1..Len(fetch.tasks) : fetch.tasks[n].pc = "returned"
    /\ fetch' = [fetch EXCEPT !.pc = "done",
                    !.all_news = AllNews(fetch.sources, fetch.tasks, Len(fetch.sources))]
    /\ UNCHANGED <<dbVars, db_writer, saveVars, reqVars, refetchVars, clean>>

\* app.py lines 875-878: every list of all_news is saved
fetch_save ==
    /\ fetch.pc = "done"
    /\ db_writer = "none"
    /\ news' = SaveAll(news, news_seq, fetch.all_news)
    /\ news_seq' = news_seq + Cardinality(news') - Cardinality(news)
    /\ fetch' = [fetch EXCEPT !.pc = "saved"]
    /\ UNCHANGED <<analysis, analysis_seq, db_writer, saveVars, reqVars,
                   refetchVars, clean>>

-----------------------------------------------------------------------------
(* The system *)

InitSave ==
    /\ news = {}
    /\ news_seq = 0
    /\ analysis = {}
    /\ analysis_seq = 0
    /\ db_writer = "none"
    /\ savers = [p \in Savers |-> IdleSaver]
    /\ saves = 0
    /\ reqs = [r \in Reqs |-> IdleReq]
    /\ ai_calls = 0
    /\ served = {}
    /\ refetch = IdleRefetch
    /\ refetches = 0
    /\ fetch = IdleFetch
    /\ clean = IdleClean

NextSave ==
    \/ \E p \in Savers, items \in Batches : save_news_to_db(p, items)
    \/ \E p \in Savers : save_item(p)
    \/ \E p \in Savers : save_item_error(p)
    \/ \E p \in Savers : save_commit(p)
    \/ \E id \in NewsIds : toggle_star(id, 1)

\* the ingestion side: concurrent save_news_to_db calls on an empty store
SpecSave == InitSave /\ [][NextSave]_vars

\* the store after save_news_to_db(<<CandFull>>) on an empty store
StoredNews == InsertOrIgnoreNews({}, 1, CandFull, ResolveCategory(CandFull))

Init ==
    /\ news = StoredNews
    /\ news_seq = 1
    /\ analysis = {}
    /\ analysis_seq = 0
    /\ db_writer = "none"
    /\ savers = [p \in Savers |-> IdleSaver]
    /\ saves = 0
    /\ reqs = [r \in Reqs |-> IdleReq]
    /\ ai_calls = 0
    /\ served = {}
    /\ refetch = IdleRefetch
    /\ refetches = 0
    /\ fetch = IdleFetch
    /\ clean = IdleClean

\* the steps of the analysis side when clients send the given requests
NextOn(requests) ==
    \/ \E id \in NewsIds : refetch_news_item(id)
    \/ \E t \in {TextNew, <<>>, Null} : refetch_resume(t)
    \/ \E r \in Reqs, q \in requests, force \in BOOLEAN :
          analyze_article(r, q[1], q[2], q[3], force)
    \/ \E r \in Reqs, o \in AIOutcomes, w \in PersistOutcomes :
          analyze_resume(r, o, w)
    \/ close_leaked_connection

Next == NextOn(Requests)

\* the summary requests of the two audience modes
SummaryRequests ==
    {<<1, "summary", "english_learner">>, <<1, "summary", "ai_learner">>}

NextSummary == NextOn(SummaryRequests)

\* the analysis side under summary requests of both modes
SpecSummary == Init /\ [][NextSummary]_vars

\* the summary and structure requests of one mode
RefetchedRequests ==
    {<<1, "summary", "english_learner">>, <<1, "structure", "english_learner">>}

NextRefetched == NextOn(RefetchedRequests)

\* the analysis side under summary and structure requests and a refetch
SpecRefetched == Init /\ [][NextRefetched]_vars

NextClean ==
    \/ \E pre \in Sides, b \in BlankLine, k \in 0..MaxBlank, post \in Tails :
          clean_begin(pre, b, k, post)
    \/ clean_return

\* the post-filter applied to refined texts
SpecClean == InitSave /\ [][NextClean]_vars

NextHtml == \E doc \in Docs : clean_html_call(doc)

\* clean_html applied to the documents of feed entries
SpecHtml == InitSave /\ [][NextHtml]_vars

\* the steps of a fetch run over the given source tables, feeds and pages
NextFetchOn(tables, feeds, pages) ==
    \/ \E sources \in tables : fetch_all_news(sources)
    \/ \E n \in DOMAIN fetch.tasks, entries \in feeds : rss_parse(n, entries)
    \/ \E n \in DOMAIN fetch.tasks : rss_parse_error(n)
    \/ \E n \in DOMAIN fetch.tasks : rss_parse_hang(n)
    \/ \E n \in DOMAIN fetch.tasks, page \in pages \cup {NoPage} : rss_item(n, page)
    \/ gather_return
    \/ fetch_save

NextFetch ==
    NextFetchOn({<<SrcOpenAI, SrcWired>>, <<SrcOpenAI, SrcAdded>>}, Feeds,
                {p \in ItemPages :
                    p.status = "timeout" \/ p.text = <<" ", "B400", NL>>})

\* a fetch run over two sources
SpecFetch == InitSave /\ [][NextFetch]_vars

\* a fetch run whose steps are taken whenever one is possible
SpecFetchFair == SpecFetch /\ WF_vars(NextFetch)

NextItem ==
    NextFetchOn({<<SrcOpenAI>>, <<SrcWired>>}, {<<e>> : e \in ItemEntries},
                ItemPages)

\* a fetch run over one source with one entry, through the whole pipeline
SpecItem == InitSave /\ [][NextItem]_vars

\* the analysis side: analyze_article and refetch_news_item on a stored feed
Spec == Init /\ [][Next]_vars

-----------------------------------------------------------------------------
(* Properties *)

UniqueUrls(table) == \A a, b \in table : a.url = b.url => a = b

\* C1: no two stored Article rows (committed, or visible to a saving
\* connection) have the same URL, under every interleaving of save calls,
\* and a save call that starts when every one of its candidates' URLs is
\* already stored inserts zero rows.
C1_UniqueUrlIdempotentSave ==
    /\ UniqueUrls(news)
    /\ \A p \in Savers :
          /\ UniqueUrls(savers[p].view)
          /\ (savers[p].repeat /\ savers[p].pc \in {"loop", "done"})
                => savers[p].inserted = 0

\* C1 witness: both URLs are stored, two saves ran, and the second one, whose
\* candidates were all stored already, has finished
C1_Witness ==
    /\ saves = 2
    /\ Urls(news) = {"u1", "u2"}
    /\ \E p \in Savers : savers[p].pc = "done" /\ savers[p].repeat

\* the table a saver's INSERT acts on
ViewOf(p) == IF db_writer = p THEN savers[p].view ELSE news

\* C8: a save whose candidate has a URL that is already stored leaves the
\* stored row as it was, field by field: the INSERT of that candidate leaves
\* the row in the saver's view, and the commit leaves every stored row whose
\* URL the batch carries in the table.
C8_SaveKeepsExistingRow ==
    [][\A p \in Savers :
          /\ (savers[p].pc = "loop" /\ savers'[p].i = savers[p].i + 1
                 /\ db_writer' = p)
                => \A row \in ViewOf(p) :
                      row.url = savers[p].items[savers[p].i].url
                          => row \in savers'[p].view
          /\ (savers[p].pc = "loop" /\ savers'[p].pc = "done")
                => \A row \in news :
                      row.url \in BatchUrls(savers[p].items) => row \in news'
      ]_vars

\* C8 witness: the row of u1 is stored with its first content and a set
\* lifecycle flag, and a saver has executed the INSERT of a candidate that
\* carries other content for u1
C8_Witness ==
    \E p \in Savers :
        /\ savers[p].pc = "loop"
        /\ db_writer = p
        /\ savers[p].i > Len(savers[p].items)
        /\ \E i \in 1..Len(savers[p].items) : savers[p].items[i] = CandOther
        /\ \E row \in news :
              /\ row.url = "u1" /\ row.title = "t1" /\ row.starred = 1
              /\ row \in savers[p].view

-----------------------------------------------------------------------------
(* Properties of analyze_article *)

\* the step is the entry of a call in slot r
Starts(r) == reqs[r].pc \in {"idle", "done"} /\ reqs'[r] # reqs[r]

\* the step is the second half of the call in slot r
Resumes(r) == reqs[r].pc = "awaiting" /\ reqs'[r].pc = "done"

ArticleRow(news_id) == CHOOSE a \in news : a.id = news_id

IsErrorPayload(ret) == ret.kind \in {"parse_error", "failed"}

\* C2: once a call has computed, stored and returned a payload for a key,
\* every non-forced call for that key that starts while the article text is
\* what the storing call read returns that same payload at once and makes
\* no AI-service call.
C2_CachedPayloadIdentical ==
    [][\A r \in Reqs : \A g \in served :
          (/\ Starts(r)
           /\ ~reqs'[r].force
           /\ SameKey(g, reqs'[r].news_id, reqs'[r].scope, reqs'[r].mode)
           /\ g.ret.kind = "payload"
           /\ \E a \in news : a.id = g.news_id /\ ArticleText(a) = g.text)
          => /\ reqs'[r].pc = "done"
             /\ reqs'[r].ret = g.ret
             /\ ai_calls' = ai_calls
      ]_vars

\* C2 witness: one AI-service call was made, its vocabulary payload was
\* stored, and a later non-forced call returned the same payload from the cache
C2_Witness ==
    \E r \in Reqs : \E g \in served :
        /\ ai_calls = 1
        /\ reqs[r].pc = "done" /\ reqs[r].cached /\ ~reqs[r].force
        /\ reqs[r].scope = "vocabulary"
        /\ SameKey(g, reqs[r].news_id, reqs[r].scope, reqs[r].mode)
        /\ g.ret.kind = "payload"
        /\ Len(g.ret.data.vocabulary) = 2
        /\ reqs[r].ret = g.ret

\* C3: a call that ends in an error payload leaves article_analysis and news
\* as they were.
C3_ErrorWritesNothing ==
    [][\A r \in Reqs :
          (Resumes(r) /\ IsErrorPayload(reqs'[r].ret))
             => (analysis' = analysis /\ news' = news)
      ]_vars

\* C4: for a stored article and a valid scope no call raises to its caller.
C4_NeverRaises ==
    \A r \in Reqs :
        (/\ reqs[r].pc = "done"
         /\ reqs[r].scope \in ValidScopes
         /\ \E a \in news : a.id = reqs[r].news_id)
        => reqs[r].ret.kind # "raised"

UniqueKeys(table) ==
    \A a, b \in table : SameKey(a, b.news_id, b.scope, b.mode) => a = b

\* C5: article_analysis never holds two rows with one (news_id, scope, mode);
\* every key that was ever written has exactly one row, that row holds the
\* payload of the write that committed last, and a write to an existing key
\* adds no row (the AUTOINCREMENT counter counts the keys).
C5_OneRecordPerKeyLastWriteWins ==
    /\ UniqueKeys(analysis)
    /\ \A g \in served :
          \E x \in analysis :
              SameKey(x, g.news_id, g.scope, g.mode) /\ x.content = g.content
    /\ Cardinality(analysis) = Cardinality(served)
    /\ analysis_seq = Cardinality(analysis)

\* C5 witness: two calls for one key overlapped, both committed, and the
\* single row of the key holds what the second writer returned
C5_Witness ==
    /\ reqs["r1"].pc = "done" /\ reqs["r2"].pc = "done"
    /\ ~reqs["r1"].cached /\ ~reqs["r2"].cached
    /\ reqs["r1"].scope = reqs["r2"].scope
    /\ reqs["r1"].mode = reqs["r2"].mode
    /\ reqs["r1"].news_id = reqs["r2"].news_id
    /\ reqs["r1"].ret.kind = "payload" /\ reqs["r2"].ret.kind = "payload"
    /\ reqs["r1"].ret # reqs["r2"].ret
    /\ Cardinality(analysis) = 1
    /\ analysis_seq = 1
    /\ \E g \in served : g.ret = reqs["r1"].ret
    /\ \E x \in analysis :
          SetScope(Loads(x.content).data, x.scope) = reqs["r1"].ret.data

\* every entry of a vocabulary list carries a term that occurs in the text
\* (case-insensitively)
AllTermsIn(vocabulary, text) ==
    \A i \in 1..Len(vocabulary) :
        /\ vocabulary[i].termKind = "str"
        /\ Truthy(vocabulary[i].term)
        /\ IsSubstr(Lower(vocabulary[i].term), Lower(text))

Range(seq) == {seq[i] : i \in 1..Len(seq)}

\* C6: a cache-hit read of scope vocabulary returns no term that is not in
\* the article's current text, returns only entries of the stored payload,
\* and changes neither table, so the stored record keeps the omitted terms.
C6_CacheHitFiltersView ==
    [][\A r \in Reqs :
          (/\ Starts(r)
           /\ reqs'[r].cached
           /\ reqs'[r].scope = "vocabulary"
           /\ reqs'[r].ret.kind = "payload")
          => LET q == reqs'[r]
                 stored == Loads((CHOOSE x \in CachedRows(q.news_id, q.scope,
                                      q.mode) : TRUE).content).data
             IN  /\ AllTermsIn(q.ret.data.vocabulary,
                               ArticleText(ArticleRow(q.news_id)))
                 /\ Range(q.ret.data.vocabulary) \subseteq Range(stored.vocabulary)
                 /\ analysis' = analysis
                 /\ news' = news
      ]_vars

\* C6 witness: the article was refetched, the stored vocabulary still holds
\* the term aB of the old text, and a cache-hit read has returned the list
\* without it
C6_Witness ==
    \E r \in Reqs : \E x \in analysis :
        /\ reqs[r].pc = "done" /\ reqs[r].cached
        /\ reqs[r].scope = "vocabulary"
        /\ reqs[r].ret.kind = "payload"
        /\ SameKey(x, reqs[r].news_id, reqs[r].scope, reqs[r].mode)
        /\ TermItem(TermAB) \in Range(Loads(x.content).data.vocabulary)
        /\ reqs[r].ret.data.vocabulary = <<TermItem(TermC)>>
        /\ ArticleText(ArticleRow(reqs[r].news_id)) = TextNew

\* C7: a cache miss or forced refresh of scope vocabulary returns and stores
\* only entries whose term occurs in the article text the call read.
C7_FreshVocabularyValidated ==
    [][\A r \in Reqs :
          (Resumes(r) /\ reqs[r].scope = "vocabulary")
          => /\ reqs'[r].ret.kind = "payload"
                   => AllTermsIn(reqs'[r].ret.data.vocabulary, reqs[r].content)
             /\ \A x \in analysis' \ analysis :
                   AllTermsIn(Loads(x.content).data.vocabulary, reqs[r].content)
      ]_vars

\* C7 witness: a forced vocabulary refresh has returned and stored the two
\* terms of the service's four entries that occur in the text
C7_Witness ==
    \E r \in Reqs : \E x \in analysis :
        /\ reqs[r].pc = "done" /\ reqs[r].force
        /\ reqs[r].scope = "vocabulary"
        /\ reqs[r].ret.kind = "payload"
        /\ reqs[r].ret.data.vocabulary = <<TermItem(TermAB), TermItem(TermC)>>
        /\ SameKey(x, reqs[r].news_id, reqs[r].scope, reqs[r].mode)
        /\ Loads(x.content).data.vocabulary = reqs[r].ret.data.vocabulary

\* the cache keys the requests address
Keys == {<<q[1], q[2], NormalizeMode(q[3])>> : q \in Requests}

\* the state of cache key k where the calls are rq and the table is table
KeyState(rq, table, k) ==
    IF \E r \in Reqs : /\ rq[r].pc = "awaiting"
                       /\ SameKey(rq[r], k[1], k[2], k[3])
    THEN "COMPUTING"
    ELSE IF \E x \in table : SameKey(x, k[1], k[2], k[3])
    THEN "CACHED"
    ELSE "ABSENT"

ListedTransitions ==
    {<<"ABSENT", "COMPUTING">>, <<"COMPUTING", "CACHED">>,
     <<"CACHED", "COMPUTING">>}

\* one step of the system keeps to the transitions given, per key, and
\* keeps every record; a non-forced call on a key with a record starts no
\* computation; a forced call on a stored article starts one
KeyStep(transitions) ==
    \A k \in Keys :
        LET s == KeyState(reqs, analysis, k)
            t == KeyState(reqs', analysis', k)
            had == \E x \in analysis : SameKey(x, k[1], k[2], k[3])
        IN  /\ s # t => <<s, t>> \in transitions
            /\ had => \E x \in analysis' : SameKey(x, k[1], k[2], k[3])
            /\ had => t # "ABSENT"
            /\ \A r \in Reqs :
                  (Starts(r) /\ SameKey(reqs'[r], k[1], k[2], k[3]))
                  => /\ (~reqs'[r].force /\ had)
                        => (reqs'[r].pc = "done" /\ ai_calls' = ai_calls)
                     /\ (reqs'[r].force /\ \E a \in news : a.id = k[1])
                        => (reqs'[r].pc = "awaiting"
                            /\ ai_calls' = ai_calls + 1)

C10_PersistFailureStillReturns ==
    [][\A r \in Reqs : \A o \in AIOutcomes : \A w \in PersistOutcomes :
          LET parsed == ParseResponse(o.resp)
              post == PostProcess(reqs[r].scope, parsed.data, reqs[r].content)
          IN  (/\ analyze_resume(r, o, w)
               /\ o.ok /\ parsed.ok /\ ~post.raised
               /\ ~Commits(reqs[r].scope, post.data, w))
              => reqs'[r].ret.kind = "payload"
      ]_vars

\* C11: a summary analysis that parses a non-empty string summary and
\* commits leaves that summary in the article's news.summary, whatever the
\* mode; and news.summary changes in no other way, so it is the summary of
\* the summary analysis that committed last.
C11_SummaryWriteBack ==
    [][/\ \A r \in Reqs :
            (/\ Resumes(r) /\ reqs[r].scope = "summary"
             /\ reqs'[r].ret.kind = "payload"
             /\ WritesSummary("summary", reqs'[r].ret.data))
            => \A o \in AIOutcomes : \A w \in PersistOutcomes :
                  LET q == reqs[r]
                      parsed == ParseResponse(o.resp)
                  IN  (/\ o.ok /\ parsed.ok
                       /\ Payload(SetScope(parsed.data, q.scope)) = reqs'[r].ret
                       /\ Commits(q.scope, parsed.data, w)
                       /\ analyze_resume(r, o, w))
                      => \A a \in news' :
                            a.id = q.news_id => a.summary = parsed.data.summary
       /\ \A a \in news : \A b \in news' :
            (a.id = b.id /\ a.summary # b.summary)
            => \E r \in Reqs :
                  /\ Resumes(r)
                  /\ reqs[r].news_id = a.id
                  /\ reqs[r].scope = "summary"
                  /\ reqs'[r].ret.kind = "payload"
                  /\ reqs'[r].ret.data.sumKind = "str"
                  /\ reqs'[r].ret.data.summary = b.summary
      ]_vars

\* C11 witness: both modes hold a summary analysis of article 1, the one of
\* mode ai_learner committed last, and news.summary is its summary and not
\* the other mode's
C11_Witness ==
    \E x, y \in analysis : \E a \in news :
        /\ a.id = 1 /\ x.news_id = 1 /\ y.news_id = 1
        /\ x.scope = "summary" /\ y.scope = "summary"
        /\ x.mode = "english_learner" /\ y.mode = "ai_learner"
        /\ Loads(x.content).data = PayloadB
        /\ Loads(y.content).data = PayloadA
        /\ a.summary = SumA

\* the number of blank lines of a text
BlankLines(text) ==
    IF text = <<>> THEN 0
    ELSE Cardinality({i \in 1..Len(Split(text)) : Split(text)[i] \in BlankLine})

\* some line of the sequence gets through the junk patterns
SomeKept(lines) == \E i \in 1..Len(lines) : ~JunkLine(lines[i])

\* no line of the result is `| Got a Tip? |` or a bare separator line
NoJunkLeft(text) ==
    \A i \in 1..Len(Split(text)) :
        /\ Split(text)[i] # LineTip
        /\ ~Search(SeparatorLine, Split(text)[i], TRUE, TRUE)

C19_TablePreserved ==
    (/\ clean.pc = "out"
     /\ clean.pre = <<LineRow, LineSeparator>>
     /\ clean.blanks = 0
     /\ clean.post = <<LineRow>>)
    => /\ \E i \in 1..Len(Split(clean.out)) : Split(clean.out)[i] = LineSeparator
       /\ \E i \in 1..Len(Split(clean.out)) : Split(clean.out)[i] = LineRow

\* C15: a refetch of a stored article whose fetch yields no text (it raised,
\* or returned the empty text) returns None and leaves every row of news as
\* it was, content_raw and updated_at included; a refetch of an id that is
\* not stored raises at once, awaits no fetch and changes nothing.
C15_FailedRefetchWritesNothing ==
    [][/\ \A t \in {<<>>, Null} :
             refetch_resume(t)
             => /\ refetch'.ret = Null
                /\ ~refetch'.raised
                /\ news' = news
       /\ \A id \in NewsIds :
             (refetch_news_item(id) /\ ~\E r \in news : r.id = id)
             => /\ refetch'.pc = "done"
                /\ refetch'.raised
                /\ news' = news
      ]_vars

\* C15 witness: the refetch of article 1 got no text and returned None; the
\* row holds its first content and the timestamp of its insertion
C15_Witness ==
    /\ refetch.pc = "done" /\ refetch.news_id = 1
    /\ refetch.ret = Null /\ ~refetch.raised
    /\ \E r \in news :
          r.id = 1 /\ r.content_raw = TextOld /\ r.updated_at = "created"

\* C12: when the run returns, the entry of every source's name is what
\* that source's task returned, the empty list for a task that failed.
C12_SourceIsolation ==
    fetch.pc \in {"done", "saved"}
    => \A n \in 1..Len(fetch.sources) :
          DictGet(fetch.all_news, fetch.sources[n].name) = fetch.tasks[n].items

\* C13: every entry of a feed whose processing raises nothing is a
\* candidate of the list the task returns, whatever its neighbours do.
C13_ItemErrorContained ==
    \A n \in 1..Len(fetch.tasks) :
        fetch.tasks[n].pc = "returned"
        => \A k \in 1..Len(fetch.tasks[n].feed) :
              fetch.tasks[n].feed[k].published # "bad"
              => \E m \in 1..Len(fetch.tasks[n].items) :
                    fetch.tasks[n].items[m].title = fetch.tasks[n].feed[k].title

\* C16: a fetch run that has started its tasks completes.
C16_FetchAllCompletes == (fetch.pc = "gather") ~> (fetch.pc \in {"done", "saved"})

\* the passes of the loop body that have run, over all tasks
Passes == UNION {Range(fetch.tasks[n].log) : n \in 1..Len(fetch.tasks)}

\* C14: fetch_url_content raises nothing to its caller: when the GET fails
\* (HTTP status >= 400, timeout, connection error) it returns the empty
\* text, when the AI service gives no text it returns the empty text or the
\* text of a later stage, and so it does for HTML that is empty or rejected.
C14_PipelineNeverRaises ==
    \A l \in Passes :
        l.fetched
        => /\ ~l.got.raised
           /\ l.got.value # Null
           /\ l.page.status # "ok" => l.got.value = <<>>
           /\ (l.page.llm # "text" \/ ~Truthy(l.page.html) \/ Rejected(l.page.html))
                 => l.got.value \in {<<>>, l.page.traf, GetText(l.page.html)}
           /\ l.got.value \in {<<>>, l.page.traf, GetText(l.page.html),
                               clean_extracted_text(Strip(l.page.text))}

\* C14 witness: the AI service failed on a page, the pipeline returned the
\* heuristic extractor's text, and the run went on to save its candidates
C14_Witness ==
    \E l \in Passes :
        /\ l.fetched
        /\ l.page.status = "ok"
        /\ l.page.llm = "error"
        /\ l.page.traf = <<"B400">>
        /\ l.got = Return(<<"B400">>)
        /\ fetch.pc = "saved"

\* C17: the decision of every pass is the stated function of the source and
\* the two cleaned lengths: content under 2000, or a source on the
\* truncated-feed list, or content under summary + 100.
C17_DecisionFromSourceAndLengths ==
    \A n \in 1..Len(fetch.tasks) : \A l \in Range(fetch.tasks[n].log) :
        LET content_len ==
                TextLen(clean_html(IF Truthy(l.entry.content) THEN l.entry.content
                                   ELSE l.entry.summary))
            summary_len == TextLen(clean_html(l.entry.summary))
        IN  l.should_fetch
                <=> \/ content_len < 2000
                    \/ fetch.sources[n].name \in {"TechCrunch AI", "Wired AI"}
                    \/ content_len < summary_len + 100

\* C20: no stored row has HTML markup in content_raw.
C20_NoMarkupStored == \A r \in news : ~HasMarkup(r.content_raw)

\* C21: a task that read a feed returns one candidate for each of its first
\* 10 entries, in feed order; each carries the cleaned inline content unless
\* the page fetch returned a longer text.
C21_OneCandidatePerEntry ==
    \A n \in 1..Len(fetch.tasks) :
        LET t == fetch.tasks[n]
        IN  t.pc = "returned" /\ t.feed # <<>>
            => /\ Len(t.items) <= 10
               /\ Len(t.items) = Len(t.feed)
               /\ \A i \in 1..Len(t.items) :
                     LET e == t.feed[i]
                         inline == clean_html(IF Truthy(e.content) THEN e.content
                                              ELSE e.summary)
                         content == t.items[i].content_raw
                     IN  /\ t.items[i].title = e.title
                         /\ t.items[i].url = e.link
                         /\ content # inline
                               => /\ t.log[i].fetched
                                  /\ content = t.log[i].got.value
                                  /\ TextLen(content) > TextLen(inline)

\* C22: the text clean_html returns holds none of the junk idioms, and it
\* holds the words of every paragraph without a junk phrase, in document
\* order, whatever element the paragraph is nested in.
C22_JunkRemovedCleanKept ==
    clean.pc = "html"
    => LET IsWord(c) == c \in {"a", "b"}
       IN  /\ ~Contains(clean.out, "G")
           /\ ~Contains(clean.out, "Q")
           /\ ~IsSubstr(LineSeparator, clean.out)
           /\ SelectSeq(clean.out, IsWord) = SelectSeq(clean.text, IsWord)

\* C23 as stated: no AI-service call is made for a page on which the
\* heuristic extractor produced sufficient text (300 characters or more).
C23_AiOnlyWhenHeuristicInsufficient ==
    \A l \in Passes :
        l.ai_called => ~(Truthy(l.page.traf) /\ TextLen(l.page.traf) >= 300)

\* C23 amended: the AI refinement pass is attempted for every fetched page,
\* whatever the heuristic extractor produced: the AI service is called
\* exactly when the GET succeeded, the settings were read, an API key is
\* configured and the HTML parses.
C23_RefinementAlwaysAttempted ==
    \A l \in Passes :
        l.fetched
        => (l.ai_called
               <=> /\ l.page.status = "ok"
                   /\ l.page.llm \notin {"settings_error", "no_key"}
                   /\ ~Rejected(l.page.html))

\* C23 witness: the AI service was called for a page of which the heuristic
\* extractor had produced 400 characters, and the run saved its candidates
C23_Witness ==
    \E l \in Passes :
        /\ l.fetched
        /\ l.ai_called
        /\ Truthy(l.page.traf)
        /\ TextLen(l.page.traf) >= 300
        /\ fetch.pc = "saved"

\* C24: unless the refinement call succeeded with a result that has no
\* no-content sentinel and at least 300 characters, the pipeline returns the
\* heuristic extractor's text when that is sufficient, else the text of the
\* last-resort fallback.
C24_FallsThroughToHeuristic ==
    \A l \in Passes :
        l.fetched /\ l.page.status = "ok"
        => LET refined == clean_extracted_text(Strip(l.page.text))
               accepted ==
                   /\ l.ai_called
                   /\ l.page.llm = "text"
                   /\ ~Contains(Strip(l.page.text), "E")
                   /\ TextLen(refined) >= 300
           IN  IF accepted
               THEN l.got.value \in {refined, l.page.traf, GetText(l.page.html)}
               ELSE l.got.value =
                        IF Truthy(l.page.traf) /\ TextLen(l.page.traf) > 100
                        THEN l.page.traf
                        ELSE GetText(l.page.html)

\* C25: no text the pipeline returns holds a line the post-filter removes,
\* whichever stage produced the text.
C25_ReturnedTextPostFiltered ==
    \A l \in Passes :
        l.fetched /\ Truthy(l.got.value)
        => \A i \in 1..Len(Split(l.got.value)) : ~JunkLine(Split(l.got.value)[i])

\* C26: a successful refetch changes content_raw and updated_at of its row
\* and nothing else in news or article_analysis; a non-forced summary or
\* structure call that starts after it on a key with a stored payload
\* returns that payload, computed from the old text, with no AI-service call.
C26_RefetchKeepsAnalysis ==
    [][/\ (refetch.pc = "fetching" /\ refetch'.pc = "done" /\ Truthy(refetch'.ret))
          => /\ analysis' = analysis
             /\ Cardinality(news') = Cardinality(news)
             /\ \A a \in news :
                   IF a.id # refetch.news_id THEN a \in news'
                   ELSE \E b \in news' :
                           b = [a EXCEPT !.content_raw = refetch'.ret,
                                         !.updated_at = b.updated_at]
       /\ \A r \in Reqs : \A g \in served :
             (/\ Starts(r)
              /\ ~reqs'[r].force
              /\ reqs'[r].scope \in {"summary", "structure"}
              /\ SameKey(g, reqs'[r].news_id, reqs'[r].scope, reqs'[r].mode)
              /\ g.ret.kind = "payload"
              /\ refetch.pc = "done" /\ Truthy(refetch.ret)
              /\ refetch.news_id = g.news_id)
             => /\ reqs'[r].pc = "done"
                /\ reqs'[r].ret = g.ret
                /\ ai_calls' = ai_calls
      ]_vars

\* C26 witness: a structure payload was computed from the old text, a
\* refetch replaced the text, and a later non-forced call returned the stored
\* payload from the cache, with one AI-service call made in all
C26_Witness ==
    \E r \in Reqs : \E g \in served : \E a \in news :
        /\ refetch.pc = "done" /\ refetch.ret = TextNew
        /\ a.id = 1 /\ a.content_raw = TextNew /\ a.updated_at = "refetched"
        /\ g.news_id = 1 /\ g.scope = "structure" /\ g.text = TextOld
        /\ g.ret.kind = "payload"
        /\ reqs[r].pc = "done" /\ reqs[r].cached /\ ~reqs[r].force
        /\ reqs[r].scope = "structure" /\ reqs[r].news_id = 1
        /\ reqs[r].ret = g.ret
        /\ ai_calls = 1

\* C27: in every step an article_analysis row of scope summary is written
\* with a summary to write back exactly when news.summary of its article is
\* set to that summary; a failure after the upsert stores neither.
C27_SummaryAtomic ==
    [][/\ \A x \in analysis' \ analysis :
             WritesSummary(x.scope, Loads(x.content).data)
             => \A a \in news' :
                   a.id = x.news_id => a.summary = Loads(x.content).data.summary
       /\ \A a \in news : \A b \in news' :
             (a.id = b.id /\ a.summary # b.summary)
             => \E x \in analysis' : \E r \in Reqs :
                   /\ Resumes(r)
                   /\ SameKey(x, b.id, "summary", reqs[r].mode)
                   /\ SetScope(Loads(x.content).data, "summary") = reqs'[r].ret.data
                   /\ Loads(x.content).data.summary = b.summary
       /\ (db_writer' = "leaked" /\ db_writer # "leaked")
             => analysis' = analysis /\ news' = news
       /\ (db_writer = "leaked" /\ db_writer' # "leaked")
             => analysis' = analysis /\ news' = news
      ]_vars

\* C27 witness: a summary call returned its payload after a failure that
\* followed the upsert; no record of its key is stored, news.summary is the
\* feed's summary, and the call's connection is still open
C27_Witness ==
    \E r \in Reqs :
        /\ reqs[r].pc = "done" /\ reqs[r].scope = "summary"
        /\ reqs[r].ret.kind = "payload"
        /\ WritesSummary("summary", reqs[r].ret.data)
        /\ db_writer = "leaked"
        /\ analysis = {}
        /\ \A a \in news : a.summary = SumFeed

\* C28: when a call returns a vocabulary payload, every term of it occurs,
\* case-insensitively, in the article text stored at that moment.
C28_ReturnedTermsInStoredText ==
    [][\A r \in Reqs :
          (/\ Starts(r) \/ Resumes(r)
           /\ reqs'[r].pc = "done"
           /\ reqs'[r].scope = "vocabulary"
           /\ reqs'[r].ret.kind = "payload")
          => AllTermsIn(reqs'[r].ret.data.vocabulary,
                        ArticleText(CHOOSE a \in news' : a.id = reqs'[r].news_id))
      ]_vars

\* C29: the map a run returns has one entry for each selected source, and
\* every candidate a source's task returned is in the map.
C29_MapAccountsForEverySource ==
    fetch.pc \in {"done", "saved"}
    => /\ Len(fetch.all_news) = Len(fetch.sources)
       /\ \A n \in 1..Len(fetch.tasks) :
             \A c \in Range(fetch.tasks[n].items) :
                \E k \in 1..Len(fetch.all_news) :
                   c \in Range(fetch.all_news[k].items)

\* C30: no two non-forced calls for one cache key await the AI service at
\* the same time.
C30_SingleFlightPerKey ==
    \A r, s \in Reqs :
        (/\ r # s
         /\ reqs[r].pc = "awaiting" /\ reqs[s].pc = "awaiting"
         /\ ~reqs[r].force /\ ~reqs[s].force)
        => ~(/\ reqs[r].news_id = reqs[s].news_id
             /\ reqs[r].scope = reqs[s].scope
             /\ reqs[r].mode = reqs[s].mode)

====
